---- MODULE Spec2Model ----
(***************************************************************************)
(* Model of utils/renumber.py: the page-renumbering traversal of a set of  *)
(* yaYUL-formatted source files linked by "$file" insertion lines.         *)
(*                                                                         *)
(* A line is the sequence of its characters, terminator included, as the   *)
(* text-mode file iterator yields it.  A file is the sequence of its       *)
(* lines, a path is the sequence of the characters of its name, and the    *)
(* file system is a function from the paths that exist to their contents.  *)
(***************************************************************************)
EXTENDS Integers, Sequences, FiniteSets, TLC

VARIABLES
    fs,         \* the directory of the main file: path -> sequence of lines
    nextPage,   \* the global nextPage
    stack,      \* the active calls of dryRun / renumber, outermost first
    stdout,     \* what print() has written so far
    status,     \* where the main block is
    isDryRun,   \* args.dryrun
    main,       \* args.main, from the entry file being processed on
    argv,       \* args.main as given to this invocation
    invocation, \* number of invocations of the script so far
    runs        \* history: one record per entry-file run started so far

vars == <<fs, nextPage, stack, stdout, status, isDryRun, main, argv, invocation, runs>>

----------------------------------------------------------------------------
(* Bounds of the model *)

\* Largest number of lines in the whole tree of an initial file system.
MaxTotal == 3

\* Largest number of entry-file runs in one behaviour.
MaxRuns == 2

\* Deepest nesting of dryRun / renumber calls that is followed.
MaxDepth == 3

----------------------------------------------------------------------------
(* Characters and text *)

WS == {" ", "\t"}

Digits == {"0", "1", "2", "3", "4", "5", "6", "7", "8", "9"}

DigitSeq == <<"0", "1", "2", "3", "4", "5", "6", "7", "8", "9">>

\* The value of one decimal digit character.
DigitVal(c) == CHOOSE v \in 0..9 : DigitSeq[v + 1] = c

\* int(s) for a string of decimal digits: leading zeros are dropped.
RECURSIVE int(_)
int(s) ==
    IF s = <<>> THEN 0
    ELSE 10 * int(SubSeq(s, 1, Len(s) - 1)) + DigitVal(s[Len(s)])

\* str(n) for n >= 0: the decimal numeral, no leading zeros.
RECURSIVE str(_)
str(n) ==
    IF n < 10 THEN <<DigitSeq[n + 1]>>
    ELSE str(n \div 10) \o <<DigitSeq[(n % 10) + 1]>>

\* The first index >= i of s whose character is not in set (Len(s) + 1 if none):
\* where a greedy [set]* starting at i stops.
RECURSIVE Skip(_, _, _)
Skip(s, i, set) ==
    IF i <= Len(s) /\ s[i] \in set THEN Skip(s, i + 1, set) ELSE i

\* TRUE iff the literal lit occurs in s at index i.
LitAt(s, i, lit) ==
    /\ i + Len(lit) - 1 <= Len(s)
    /\ \A k \in 1..Len(lit) : s[i + k - 1] = lit[k]

----------------------------------------------------------------------------
(* INSERT_RE = re.compile(r'\$([^ \t]+)'), used with .match (anchored at    *)
(* the first character of the line).  [^ \t] also matches the newline.     *)

InsertEnd(line) == Skip(line, 2, {c \in {line[k] : k \in 1..Len(line)} : c \notin WS})

INSERT_RE_match(line) ==
    /\ Len(line) >= 2
    /\ line[1] = "$"
    /\ InsertEnd(line) > 2

\* insertMatch.group(1)
INSERT_RE_group1(line) == SubSeq(line, 2, InsertEnd(line) - 1)

(* PAGE_RE = re.compile(r'##[ \t]*Page[ \t]+([0-9]+)'), used with .match.   *)

PageKw == <<"P", "a", "g", "e">>

PageKwAt(line) == Skip(line, 3, WS)

PageWsAt(line) == PageKwAt(line) + Len(PageKw)

PageNumAt(line) == Skip(line, PageWsAt(line), WS)

PageNumEnd(line) == Skip(line, PageNumAt(line), Digits)

\* Variant: PAGE_RE is matched after the blanks and tabs that begin the line.
Mut_PAGE_RE_match(line) ==
    LET rest == SubSeq(line, Skip(line, 1, WS), Len(line))
    IN  /\ LitAt(rest, 1, <<"#", "#">>)
        /\ LitAt(rest, Skip(rest, 3, WS), PageKw)
        /\ Skip(rest, Skip(rest, 3, WS) + Len(PageKw), WS) > Skip(rest, 3, WS) + Len(PageKw)
        /\ rest[Skip(rest, Skip(rest, 3, WS) + Len(PageKw), WS)] \in Digits

PAGE_RE_match(line) ==
    /\ LitAt(line, 1, <<"#", "#">>)
    /\ LitAt(line, PageKwAt(line), PageKw)
    /\ PageNumAt(line) > PageWsAt(line)
    /\ PageNumEnd(line) > PageNumAt(line)

\* pageMatch.group(1)
PAGE_RE_group1(line) == SubSeq(line, PageNumAt(line), PageNumEnd(line) - 1)

----------------------------------------------------------------------------
(* Paths *)

A == <<"A">>

B == <<"B">>

C == <<"C">>

\* Path(mainDirectory, file + ".renumber")
Temp(file) == file \o <<".", "r", "e", "n", "u", "m", "b", "e", "r">>

\* open(path, "r") succeeds
Exists(f, path) == path \in DOMAIN f

\* open(path, "w"): the file is created, or truncated
Create(f, path) == [p \in DOMAIN f \cup {path} |-> IF p = path THEN <<>> ELSE f[p]]

\* f_write.write(text) on the file at path
Write(f, path, text) == [f EXCEPT ![path] = Append(f[path], text)]

\* Variant: the temporary file of a file without changes is not deleted.
Mut_Unlink(f, path) == f

\* output.unlink()
Unlink(f, path) == [p \in DOMAIN f \ {path} |-> f[p]]

\* output.rename(input)
Rename(f, from, to) ==
    [p \in (DOMAIN f \cup {to}) \ {from} |-> IF p = to THEN f[from] ELSE f[p]]

----------------------------------------------------------------------------
(* parseLine, the part that does not call the reader (lines 79-87) *)

\* The value of "replaced" when no replacement was made: False.  parseLine's
\* result is used only as "if parsed:", where the empty text is false too.
False == <<>>

\* Variant: the replacement without its newline.
Mut_Replacement(np) == <<"#", "#", " ", "P", "a", "g", "e", " ">> \o str(np)

\* '## Page ' + str(nextPage) + '\n'
Replacement(np) == <<"#", "#", " ", "P", "a", "g", "e", " ">> \o str(np) \o <<"\n">>

\* newPage = int(pageMatch.group(1))
newPage(line) == int(PAGE_RE_group1(line))

\* Variant: the comparison made against the page after the expected one.
Mut_Mismatch(line, np) == newPage(line) # np + 1

\* newPage != nextPage
Mismatch(line, np) == newPage(line) # np

\* what parseLine returns for a line that is no insertion line
parseLine_replaced(line, np) ==
    IF PAGE_RE_match(line) /\ Mismatch(line, np) THEN Replacement(np) ELSE False

\* Variant: the print statement outside "if newPage != nextPage".
Mut_parseLine_print(line, np) ==
    IF PAGE_RE_match(line)
    THEN <<[kind |-> "Renumbering", name |-> <<>>, old |-> newPage(line), new |-> np]>>
    ELSE <<>>

\* what parseLine prints: '  Renumbering %d to %d' % (newPage, nextPage)
parseLine_print(line, np) ==
    IF PAGE_RE_match(line) /\ Mismatch(line, np)
    THEN <<[kind |-> "Renumbering", name |-> <<>>, old |-> newPage(line), new |-> np]>>
    ELSE <<>>

\* Variant: "nextPage += 1" inside "if newPage != nextPage".
Mut_parseLine_nextPage(line, np) ==
    IF PAGE_RE_match(line) /\ newPage(line) # np THEN np + 1 ELSE np

\* nextPage after parseLine: nextPage += 1 for every page line
parseLine_nextPage(line, np) == IF PAGE_RE_match(line) THEN np + 1 ELSE np

\* what renumber writes for a line: "if parsed: ... write(parsed) else: write(line)"
Written(line, parsed) == IF parsed # <<>> THEN parsed ELSE line

\* Variant: "changes = True" outside "if parsed".
Mut_Changes(changes, parsed) == TRUE

\* "changes" after a line
Changes(changes, parsed) == IF parsed # <<>> THEN TRUE ELSE changes

\* Variant: the main block without "nextPage = 1".
Mut_FreshPage == nextPage

\* "nextPage = 1" of the main block, before each entry file
FreshPage == 1

\* Variant: a counter that starts again in every file.
Mut_Shared(np) == 1

\* "global nextPage": the reader that parseLine calls, and every call below
\* it, goes on with the caller's counter and leaves its own to the caller.
Shared(np) == np

\* Variant: the main block calls renumber whatever args.dryrun is.
Mut_Reader(dry) == "renumber"

\* the reader the main block and parseLine pass on
Reader(dry) == IF dry THEN "dryRun" ELSE "renumber"

----------------------------------------------------------------------------
(* The history of the entry-file runs, kept for the properties below.  It  *)
(* records what the steps did; no step reads it.                           *)

ThisRun == runs[Len(runs)]

\* the history with the current run's record replaced by r
Recorded(r) == [runs EXCEPT ![Len(runs)] = r]

\* the record of a page line handled by the visit v of file at line idx
PageEvent(v, file, depth, idx, line, np) ==
    [visit |-> v, file |-> file, depth |-> depth, idx |-> idx, line |-> line,
     declared |-> newPage(line), expected |-> np,
     replaced |-> parseLine_replaced(line, np)]

----------------------------------------------------------------------------
(* Calling reader(file): dryRun (lines 47-49) or renumber (lines 53-57),   *)
(* up to the first iteration of its loop.                                  *)

Frame(file, reader, f, v) ==
    [file |-> file, reader |-> reader, lines |-> f[file], pos |-> 1,
     changes |-> FALSE, visit |-> v]

\* Variant: renumber opens its input for writing too, which truncates it.
Mut_Opened(f, file, reader) ==
    IF reader = "renumber" THEN Create(Create(f, Temp(file)), file) ELSE f

\* the file system once the reader has opened its files
Opened(f, file, reader) ==
    IF reader = "renumber" THEN Create(f, Temp(file)) ELSE f

\* Variant: the reader passes over an insertion line that names a file of
\* one of the active calls.
Mut_Call_Cycle(file, reader, stk, v) ==
    IF Exists(fs, file)
    THEN IF \E k \in 1..Len(stk) : stk[k].file = file
         THEN /\ stack' = [stk EXCEPT ![Len(stk)] = [@ EXCEPT !.pos = @ + 1]]
              /\ fs' = IF reader = "renumber"
                       THEN Write(fs, Temp(stk[Len(stk)].file),
                                  stk[Len(stk)].lines[stk[Len(stk)].pos])
                       ELSE fs
              /\ status' = "visit"
         ELSE /\ stack' = Append(stk, Frame(file, reader, fs, v))
              /\ fs' = Opened(fs, file, reader)
              /\ status' = "visit"
    ELSE /\ stack' = <<>>
         /\ fs' = fs
         /\ status' = "error"

\* Variant: the reader remembers the files it has been through in this run
\* and passes over an insertion line that names one of them.
Mut_Call_Memo(file, reader, stk, v) ==
    IF Exists(fs, file)
    THEN IF stk # <<>> /\ \E k \in 1..Len(ThisRun.closes) : ThisRun.closes[k].file = file
         THEN /\ stack' = [stk EXCEPT ![Len(stk)] = [@ EXCEPT !.pos = @ + 1]]
              /\ fs' = IF reader = "renumber"
                       THEN Write(fs, Temp(stk[Len(stk)].file),
                                  stk[Len(stk)].lines[stk[Len(stk)].pos])
                       ELSE fs
              /\ status' = "visit"
         ELSE /\ stack' = Append(stk, Frame(file, reader, fs, v))
              /\ fs' = Opened(fs, file, reader)
              /\ status' = "visit"
    ELSE /\ stack' = <<>>
         /\ fs' = fs
         /\ status' = "error"

\* Variant: the reader opens its output before its input, so that a file
\* that is missing gets a temporary file before the call fails.
Mut_Call(file, reader, stk, v) ==
    IF Exists(fs, file)
    THEN /\ stack' = Append(stk, Frame(file, reader, fs, v))
         /\ fs' = Opened(fs, file, reader)
         /\ status' = "visit"
    ELSE /\ stack' = <<>>
         /\ fs' = Opened(fs, file, reader)
         /\ status' = "error"

\* The call reader(file), made with the active calls stk, as the visit number
\* v of its run.  open(input, "r") raises when there is no such file: the
\* exception is caught nowhere, so every active call is left (its files
\* closed, its temporary file kept) and the script ends.
Call(file, reader, stk, v) ==
    IF Exists(fs, file)
    THEN /\ stack' = Append(stk, Frame(file, reader, fs, v))
         /\ fs' = Opened(fs, file, reader)
         /\ status' = "visit"
    ELSE /\ stack' = <<>>
         /\ fs' = fs
         /\ status' = "error"

----------------------------------------------------------------------------
(* The script *)

EntryLists == {<<A>>, <<A, B>>}

\* One invocation of the script: the module is loaded (nextPage = 1) and the
\* arguments are parsed (lines 90-99).
Invoke(dry, mains) ==
    /\ status \in {"start", "exit", "error"}
    /\ Len(runs) + Len(mains) <= MaxRuns
    /\ isDryRun' = dry
    /\ main' = mains
    /\ argv' = mains
    /\ invocation' = invocation + 1
    /\ nextPage' = 1
    /\ status' = "main"
    /\ UNCHANGED <<fs, stack, stdout, runs>>

\* The body of "for mainFile in args.main" (lines 100-108) up to the first
\* line of the entry file.
StartEntry ==
    /\ status = "main"
    /\ main # <<>>
    /\ stdout' = Append(stdout, [kind |-> "file", name |-> Head(main), old |-> 0, new |-> 0])
    /\ nextPage' = FreshPage
    /\ Call(Head(main), Reader(isDryRun), <<>>, 1)
    /\ runs' = Append(runs,
          [file |-> Head(main), dry |-> isDryRun, inv |-> invocation, args |-> argv,
           arg |-> Len(argv) - Len(main) + 1, fs0 |-> fs, first |-> nextPage',
           out0 |-> Len(stdout'),
           state |-> IF Exists(fs, Head(main)) THEN "running" ELSE "aborted",
           opens |-> IF Exists(fs, Head(main)) THEN 1 ELSE 0,
           pages |-> <<>>, closes |-> <<>>])
    /\ UNCHANGED <<isDryRun, main, argv, invocation>>

\* The loop over args.main is exhausted: the script ends.
Finish ==
    /\ status = "main"
    /\ main = <<>>
    /\ status' = "exit"
    /\ UNCHANGED <<fs, nextPage, stack, stdout, isDryRun, main, argv, invocation, runs>>

Top == stack[Len(stack)]

\* Variant: the reader's loop stops before the last line of its file.
Mut_AtLine == status = "visit" /\ Top.pos < Len(Top.lines)

AtLine == status = "visit" /\ Top.pos <= Len(Top.lines)

Line == Top.lines[Top.pos]

\* parseLine on an insertion line (lines 75-77): the reader is called on the
\* named file; the caller's loop resumes when it returns.
ParseInsert ==
    /\ AtLine
    /\ INSERT_RE_match(Line)
    /\ Len(stack) < MaxDepth
    /\ Call(INSERT_RE_group1(Line), Top.reader, stack, ThisRun.opens + 1)
    /\ nextPage' = Shared(nextPage)
    /\ runs' = Recorded([ThisRun EXCEPT
                 !.opens = IF Exists(fs, INSERT_RE_group1(Line)) THEN @ + 1 ELSE @,
                 !.state = IF Exists(fs, INSERT_RE_group1(Line)) THEN @ ELSE "aborted"])
    /\ UNCHANGED <<stdout, isDryRun, main, argv, invocation>>

\* One iteration of the reader's loop on a line that is no insertion line:
\* parseLine (lines 79-87), then for renumber lines 60-64.
ParseOther ==
    /\ AtLine
    /\ ~INSERT_RE_match(Line)
    /\ LET parsed == parseLine_replaced(Line, nextPage)
       IN  /\ stdout' = stdout \o parseLine_print(Line, nextPage)
           /\ nextPage' = parseLine_nextPage(Line, nextPage)
           /\ fs' = IF Top.reader = "renumber"
                    THEN Write(fs, Temp(Top.file), Written(Line, parsed))
                    ELSE fs
           /\ stack' = [stack EXCEPT ![Len(stack)] =
                          [@ EXCEPT !.pos = @ + 1,
                                    !.changes = IF Top.reader = "renumber"
                                                THEN Changes(@, parsed) ELSE @]]
    /\ runs' = IF PAGE_RE_match(Line)
               THEN Recorded([ThisRun EXCEPT !.pages = Append(@,
                        PageEvent(Top.visit, Top.file, Len(stack), Top.pos, Line, nextPage))])
               ELSE runs
    /\ UNCHANGED <<status, isDryRun, main, argv, invocation>>

\* "if not changes" of renumber (line 66) is false: there were changes
Renames(frame) == frame.reader = "renumber" /\ frame.changes

\* lines 66-69 of renumber: the temporary file replaces the input when there
\* were changes, and is deleted otherwise.  dryRun has nothing to do.
Commit(f, frame) ==
    IF frame.reader = "renumber"
    THEN IF ~Renames(frame)
         THEN Unlink(f, Temp(frame.file))
         ELSE Rename(f, Temp(frame.file), frame.file)
    ELSE f

\* Variant: the commit of renumber (lines 66-69) is indented into its loop:
\* once the insertion line is written, the output so far replaces the input.
Mut_Resumed_Commit(f, caller) ==
    IF caller.reader = "renumber"
    THEN LET g == Write(f, Temp(caller.file), Written(caller.lines[caller.pos], False))
         IN  [g EXCEPT ![caller.file] = g[Temp(caller.file)]]
    ELSE f

\* Variant: the insertion line is not written once the reader has returned.
Mut_Resumed(f, caller) == f

\* lines 60-64 in the caller once reader(file) has returned from an insertion
\* line: parseLine returns False, so the line is written as it is.
Resumed(f, caller) ==
    IF caller.reader = "renumber"
    THEN Write(f, Temp(caller.file), Written(caller.lines[caller.pos], False))
    ELSE f

\* the record of the end of a visit: f is the file system before the commit,
\* g the one after it
CloseEvent(frame, depth, f, g) ==
    [visit |-> frame.visit, file |-> frame.file, depth |-> depth,
     reader |-> frame.reader, input |-> frame.lines,
     wrote |-> Exists(f, Temp(frame.file)),
     output |-> IF Exists(f, Temp(frame.file)) THEN f[Temp(frame.file)] ELSE <<>>,
     renamed |-> Renames(frame),
     same |-> g[frame.file] = f[frame.file],
     after |-> g[frame.file],
     temp |-> Exists(g, Temp(frame.file))]

\* The reader's loop has read the last line of its file: it commits and
\* returns, to the caller's loop or to the main block.
Return ==
    /\ status = "visit"
    /\ Top.pos > Len(Top.lines)
    /\ LET committed == Commit(fs, Top)
           rest == SubSeq(stack, 1, Len(stack) - 1)
       IN  /\ IF rest = <<>>
              THEN /\ fs' = committed
                   /\ stack' = rest
                   /\ status' = "main"
                   /\ main' = Tail(main)
              ELSE /\ fs' = Resumed(committed, rest[Len(rest)])
                   /\ stack' = [rest EXCEPT ![Len(rest)] = [@ EXCEPT !.pos = @ + 1]]
                   /\ status' = "visit"
                   /\ main' = main
           /\ runs' = Recorded([ThisRun EXCEPT
                        !.closes = Append(@, CloseEvent(Top, Len(stack), fs, committed)),
                        !.state = IF rest = <<>> THEN "done" ELSE @])
    /\ nextPage' = Shared(nextPage)
    /\ UNCHANGED <<stdout, isDryRun, argv, invocation>>

----------------------------------------------------------------------------
(* Initial file systems *)

SeqsUpTo(S, n) == UNION {[1..k -> S] : k \in 0..n}

\* '## Page <n>' as the sources write it
PageLine(n) == <<"#", "#", " ", "P", "a", "g", "e", " ">> \o str(n) \o <<"\n">>

\* '$<file>' followed by a blank, as the sources write it before a comment
InsertLine(file) == <<"$">> \o file \o <<" ", "\n">>

\* The lines of the trees whose shape varies: page lines and insertion lines.
PageLines == {PageLine(1), PageLine(2)}

TreeLines == PageLines \cup {InsertLine(B), InsertLine(C)}

\* Trees of at most MaxTotal lines in A, B and C, B one line shorter than A and
\* C, which inserts no file, one shorter than B; A is there, B and C may be
\* missing.
TreeInit ==
    \E present \in SUBSET {B, C} :
    \E a \in SeqsUpTo(TreeLines, MaxTotal) :
    \E b \in SeqsUpTo(TreeLines, MaxTotal - 1) :
    \E c \in SeqsUpTo(PageLines, MaxTotal - 2) :
        /\ Len(a) + Len(b) + Len(c) <= MaxTotal
        /\ B \notin present => b = <<>>
        /\ C \notin present => c = <<>>
        /\ fs = [p \in {A} \cup present |-> IF p = A THEN a ELSE IF p = B THEN b ELSE c]

\* Lines whose text varies: other spellings of the page line, text after the
\* number, leading blanks, an insertion line that ends with its file name.
TextLines ==
    { <<"#", "#", "\t", "P", "a", "g", "e", " ", " ", "2", " ", "x", "\n">>,
      <<"#", "#", "P", "a", "g", "e", " ", "0", "1", "\n">>,
      <<" ", "#", "#", " ", "P", "a", "g", "e", " ", "1", "\n">>,
      <<"#", "#", " ", "P", "a", "g", "e", "2", "\n">>,
      <<" ", "$", "B", " ", "\n">>,
      <<"$", "B", "\n">>,
      <<"$", "B", "\t", "#", "\n">>,
      <<"x", "\n">>,
      PageLine(12) }

\* Files of at most MaxTotal - 1 such lines in A, and B with a page line and
\* another line.
TextInit ==
    \E a \in SeqsUpTo(TextLines, MaxTotal - 1) :
        fs = [p \in {A, B} |-> IF p = A THEN a ELSE <<PageLine(2), <<"x", "\n">>>>]

\* The tree of the cross-file example: page 1, an insertion and page 2 in the
\* parent, page 5 in the child.
ExampleTree ==
    [p \in {A, B} |->
        IF p = A THEN <<PageLine(1), InsertLine(B), PageLine(2)>>
        ELSE <<PageLine(5)>>]

ExampleInit == fs = ExampleTree

\* A tree whose page lines are all wrong: page 2, an insertion and page 2 in
\* the parent, page 1 in the child.
NoticesTree ==
    [p \in {A, B} |->
        IF p = A THEN <<PageLine(2), InsertLine(B), PageLine(2)>>
        ELSE <<PageLine(1)>>]

NoticesInit == fs = NoticesTree

Init ==
    /\ TreeInit \/ TextInit \/ ExampleInit \/ NoticesInit
    /\ nextPage = 1
    /\ stack = <<>>
    /\ stdout = <<>>
    /\ status = "start"
    /\ isDryRun = FALSE
    /\ main = <<>>
    /\ argv = <<>>
    /\ invocation = 0
    /\ runs = <<>>

Next ==
    \/ \E dry \in BOOLEAN : \E mains \in EntryLists : Invoke(dry, mains)
    \/ StartEntry
    \/ Finish
    \/ ParseInsert
    \/ ParseOther
    \/ Return

Spec == Init /\ [][Next]_vars

\* A step of the script once it is invoked.
Step == StartEntry \/ Finish \/ ParseInsert \/ ParseOther \/ Return

\* The script runs on its own: a statement that can be executed is executed.
\* Whether the script is invoked again is up to the user.
FairSpec == Spec /\ WF_vars(Step)

----------------------------------------------------------------------------
(* Reading the history *)

Runs == 1..Len(runs)

\* The run the script is in, or was in last.  Every run is the latest one in
\* the states of its own steps, and no later step changes its record: what
\* holds of the latest run in every state holds of every run.
Latest == {i \in Runs : i = Len(runs)}

\* the notices printed during run i: stdout after the announcement of its
\* entry file, up to the next announcement
Notices(i) ==
    SubSeq(stdout, runs[i].out0 + 1,
           IF i < Len(runs) THEN runs[i + 1].out0 - 1 ELSE Len(stdout))

\* the page lines at which parseLine found another number than it expected
Corrected(e) == e.declared # e.expected

\* the indices of the lines that the visit v of run r corrected
FixedLines(r, v) ==
    {r.pages[k].idx : k \in {j \in 1..Len(r.pages) :
                               r.pages[j].visit = v /\ Corrected(r.pages[j])}}

\* the index set of a sequence
Idx(s) == 1..Len(s)

\* the events of a sequence, as a set
Events(s) == {s[k] : k \in Idx(s)}

\* TRUE iff the run i is the run the script is in, or was in last
Current(i) == i = Len(runs) /\ runs[i].inv = invocation

----------------------------------------------------------------------------
(* C1: within one entry-file run the counter starts at 1 and advances by   *)
(* exactly 1 at every page line, corrected or not: after N page lines      *)
(* nextPage = N + 1, and the k-th page line visited is compared against k  *)
(* and, when its number differs, rewritten to k.                           *)

C1_CounterCountsPageLines ==
    \A i \in Latest :
        /\ Current(i) => nextPage = Len(runs[i].pages) + 1
        /\ \A k \in Idx(runs[i].pages) :
              LET e == runs[i].pages[k]
              IN  /\ e.expected = k
                  /\ e.declared = k => e.replaced = False
                  /\ e.declared # k =>
                        /\ PAGE_RE_match(e.replaced)
                        /\ newPage(e.replaced) = k

\* A run has seen three page lines, the first right and the second wrong.
C1_Witness ==
    \E i \in Runs :
        /\ Current(i)
        /\ Len(runs[i].pages) = 3
        /\ ~Corrected(runs[i].pages[1])
        /\ Corrected(runs[i].pages[2])
        /\ nextPage = 4

----------------------------------------------------------------------------
(* C2: idempotence.  After a completed live run of an entry file, a second *)
(* live run of it emits no notice and replaces no file.                    *)

\* the live run i + 1 follows the completed live run i of the same entry file
SecondLiveRun(i) ==
    /\ i + 1 \in Runs
    /\ ~runs[i].dry /\ runs[i].state = "done"
    /\ ~runs[i + 1].dry /\ runs[i + 1].state = "done"
    /\ runs[i + 1].file = runs[i].file

C2_SecondLiveRunChangesNothing ==
    \A i \in Runs :
        SecondLiveRun(i) =>
            /\ Notices(i + 1) = <<>>
            /\ \A e \in Events(runs[i + 1].closes) : ~e.renamed

----------------------------------------------------------------------------
(* C3: in dry-run mode the file system is, in every state of the run, the  *)
(* one the run started with: no file is replaced and no temporary file is  *)
(* created, also when the run ends with an error.                          *)

C3_DryRunLeavesFilesAlone ==
    \A i \in Latest :
        runs[i].dry =>
            /\ Current(i) => fs = runs[i].fs0
            /\ \A e \in Events(runs[i].closes) : ~e.wrote /\ ~e.renamed /\ e.same

\* A dry run has corrected a page line of a file that it has left since.
C3_Witness ==
    \E i \in Runs :
        /\ Current(i) /\ runs[i].dry
        /\ \E e \in Events(runs[i].closes) : FixedLines(runs[i], e.visit) # {}

\* A dry run that printed a notice has ended with an error.
C3_WitnessError ==
    \E i \in Runs :
        /\ Current(i) /\ runs[i].dry /\ runs[i].state = "aborted" /\ status = "error"
        /\ Notices(i) # <<>>

----------------------------------------------------------------------------
(* C4: the notices of a dry run are those of a live run started from the   *)
(* same tree.                                                              *)

\* the completed live run i + 1 follows the completed dry run i of the same
\* entry file, from the same files
LiveAfterDry(i) ==
    /\ i + 1 \in Runs
    /\ runs[i].dry /\ runs[i].state = "done"
    /\ ~runs[i + 1].dry /\ runs[i + 1].state = "done"
    /\ runs[i + 1].file = runs[i].file
    /\ runs[i + 1].fs0 = runs[i].fs0

C4_SameNoticesInBothModes ==
    \A i \in Runs : LiveAfterDry(i) => Notices(i + 1) = Notices(i)

----------------------------------------------------------------------------
(* C5: the counter is shared across insertion lines and never reset per    *)
(* file: the first page line of an inserted file is compared against the   *)
(* value that follows the caller's last one, and the caller's next page    *)
(* line against the value that follows the inserted file's last one.  On   *)
(* the example tree (1 in the parent, 5 in the child, 2 in the parent) the *)
(* notices are 5 -> 2 and 2 -> 3, in that order.                           *)

Notice(old, new) == [kind |-> "Renumbering", name |-> <<>>, old |-> old, new |-> new]

C5_CrossFileContinuity ==
    \A i \in Latest :
        /\ \A k \in Idx(runs[i].pages) :
              (k > 1 /\ runs[i].pages[k].visit # runs[i].pages[k - 1].visit) =>
                  runs[i].pages[k].expected = runs[i].pages[k - 1].expected + 1
        /\ (runs[i].fs0 = ExampleTree /\ runs[i].file = A /\ runs[i].state = "done") =>
              /\ Notices(i) = <<Notice(5, 2), Notice(2, 3)>>
              /\ (~runs[i].dry /\ Current(i)) =>
                    /\ fs[A] = <<PageLine(1), InsertLine(B), PageLine(3)>>
                    /\ fs[B] = <<PageLine(2)>>

\* The live run of the example tree is complete.
C5_Witness ==
    \E i \in Runs :
        /\ Current(i) /\ ~runs[i].dry
        /\ runs[i].fs0 = ExampleTree /\ runs[i].file = A /\ runs[i].state = "done"
        /\ Len(runs[i].pages) = 3
        /\ runs[i].pages[2].depth = 2 /\ runs[i].pages[3].depth = 1

----------------------------------------------------------------------------
(* C6: the entry files of an invocation are processed in the order given,  *)
(* and each run starts with nextPage = 1: what a run compares against does *)
(* not depend on the page lines seen in the runs before it.                *)

C6_IndependentEntryFiles ==
    \A i \in Latest :
        LET r == runs[i]
        IN  /\ r.first = 1
            /\ r.file = r.args[r.arg]
            /\ \A k \in Idx(r.pages) : r.pages[k].expected = k
            /\ IF i > 1 /\ runs[i - 1].inv = r.inv
               THEN r.arg = runs[i - 1].arg + 1 /\ runs[i - 1].state = "done"
               ELSE r.arg = 1

\* The second entry file of an invocation has a page line corrected, after a
\* first entry file with page lines.
C6_Witness ==
    \E i \in Runs :
        /\ runs[i].arg = 2
        /\ runs[i - 1].pages # <<>>
        /\ \E k \in Idx(runs[i].pages) : Corrected(runs[i].pages[k])

----------------------------------------------------------------------------
(* C7: at the end of a visit in live mode the file is replaced by its      *)
(* rewritten copy iff one of its own page lines was corrected during the   *)
(* visit; otherwise it is left as it was; no temporary file is left.       *)

C7_OnlyChangedFilesReplaced ==
    \A i \in Latest :
        ~runs[i].dry =>
            \A e \in Events(runs[i].closes) :
                /\ e.renamed <=> FixedLines(runs[i], e.visit) # {}
                /\ e.renamed => e.after = e.output
                /\ ~e.renamed => e.same /\ e.after = e.input
                /\ ~e.temp

\* A file with a page line of its own is left as it was although the file it
\* inserts was replaced.
C7_Witness ==
    \E i \in Runs :
        /\ ~runs[i].dry
        /\ \E e1, e2 \in Events(runs[i].closes) :
              /\ e1.depth = e2.depth + 1 /\ e1.visit > e2.visit
              /\ e1.renamed /\ ~e2.renamed
              /\ \E k \in Idx(runs[i].pages) : runs[i].pages[k].visit = e2.visit

----------------------------------------------------------------------------
(* C8: if the numbers of the page lines of a tree read 1, 2, 3, ... in     *)
(* traversal order, a run emits no notice and, once complete, has changed  *)
(* no file and left no temporary file.                                     *)

\* The numbers of the page lines of the tree of file in f, in the order of a
\* depth-first traversal that follows each insertion line where it stands.
RECURSIVE Declared(_, _, _)
Declared(f, file, depth) ==
    LET RECURSIVE From(_)
        From(k) ==
            IF k > Len(f[file]) THEN <<>>
            ELSE LET line == f[file][k]
                 IN  (IF INSERT_RE_match(line) THEN Declared(f, INSERT_RE_group1(line), depth + 1)
                      ELSE IF PAGE_RE_match(line) THEN <<newPage(line)>>
                      ELSE <<>>) \o From(k + 1)
    IN  IF depth > MaxDepth \/ ~Exists(f, file) THEN <<>> ELSE From(1)

InOrder(numbers) == \A k \in Idx(numbers) : numbers[k] = k

C8_NoOpOnCorrectInput ==
    \A i \in Latest :
        (runs[i].state = "done" /\ InOrder(Declared(runs[i].fs0, runs[i].file, 1))) =>
            /\ Notices(i) = <<>>
            /\ \A e \in Events(runs[i].closes) : ~e.renamed /\ e.same /\ ~e.temp
            /\ Current(i) => fs = runs[i].fs0

\* A live run over two files whose page lines read 1, 2 is complete.
C8_Witness ==
    \E i \in Runs :
        /\ Current(i) /\ ~runs[i].dry /\ runs[i].state = "done"
        /\ Len(runs[i].pages) >= 2
        /\ runs[i].pages[1].visit # runs[i].pages[2].visit
        /\ InOrder(Declared(runs[i].fs0, runs[i].file, 1))

----------------------------------------------------------------------------
(* C9: when a page line whose number D differs from the expected E is      *)
(* corrected, the replacement is the original line with E in the place of  *)
(* D: what stands before the number and after it is kept.                  *)

\* what stands before the number of a page line, and after it
Prefix(line) == SubSeq(line, 1, PageNumAt(line) - 1)

Rest(line) == SubSeq(line, PageNumEnd(line), Len(line))

\* the page line with the numeral of n in the place of its number
Subst(line, n) == Prefix(line) \o str(n) \o Rest(line)

\* the line that stands, at the end of visit e.visit, where the page line of
\* the event p stood (the value parseLine returned, in a dry run)
Replaced(r, p) ==
    IF \E e \in Events(r.closes) : e.visit = p.visit /\ e.wrote
    THEN (CHOOSE e \in Events(r.closes) : e.visit = p.visit).output[p.idx]
    ELSE p.replaced

----------------------------------------------------------------------------
(* C10: a live rewrite of a file writes one line per line read, in the     *)
(* same order, and every line that is no corrected page line (insertion    *)
(* lines, other lines, page lines whose number matched) is written as it   *)
(* was read; an insertion line is never rewritten.                         *)

C10_UntouchedLinesPreserved ==
    \A i \in Latest : \A e \in Events(runs[i].closes) :
        e.reader = "renumber" =>
            /\ e.wrote
            /\ Len(e.output) = Len(e.input)
            /\ \A k \in Idx(e.input) :
                  /\ k \notin FixedLines(runs[i], e.visit) => e.output[k] = e.input[k]
                  /\ INSERT_RE_match(e.input[k]) => e.output[k] = e.input[k]

\* A file with an insertion line, a page line whose number matched and a
\* corrected page line has been replaced.
C10_Witness ==
    \E i \in Runs : \E e \in Events(runs[i].closes) :
        /\ e.renamed
        /\ \E k \in Idx(e.input) : INSERT_RE_match(e.input[k])
        /\ \E k \in Idx(e.input) :
              PAGE_RE_match(e.input[k]) /\ k \notin FixedLines(runs[i], e.visit)
        /\ FixedLines(runs[i], e.visit) # {}

----------------------------------------------------------------------------
(* C11: in every state of a live run, an aborted one included, every file  *)
(* of the tree holds either the whole content it had before its visit or   *)
(* the whole output of a finished visit of it; what is written of a visit  *)
(* in progress is in the temporary file only, and a file is replaced at    *)
(* most once per visit, by the rename that ends it.                        *)

\* TRUE iff the path has the extension of the temporary files
IsTemp(path) ==
    /\ Len(path) > Len(Temp(<<>>))
    /\ SubSeq(path, Len(path) - Len(Temp(<<>>)) + 1, Len(path)) = Temp(<<>>)

\* the files of f that are no temporary files
Sources(f) == {p \in DOMAIN f : ~IsTemp(p)}

\* the positions in the closes of r of the visits that replaced the file p
Replacing(r, p) == {k \in Idx(r.closes) : r.closes[k].file = p /\ r.closes[k].renamed}

\* the greatest element of a non-empty set of numbers
Last(S) == CHOOSE k \in S : \A j \in S : j <= k

C11_NoHalfWrittenOriginal ==
    \A i \in Latest :
        ~runs[i].dry =>
            /\ Sources(fs) = Sources(runs[i].fs0)
            /\ \A p \in Sources(runs[i].fs0) :
                  IF Replacing(runs[i], p) = {}
                  THEN fs[p] = runs[i].fs0[p]
                  ELSE LET e == runs[i].closes[Last(Replacing(runs[i], p))]
                       IN  /\ fs[p] = e.output
                           /\ Len(e.output) = Len(e.input)
            /\ \A k \in Idx(stack) : fs[stack[k].file] = stack[k].lines
            /\ \A k, l \in Idx(runs[i].closes) :
                  runs[i].closes[k].visit = runs[i].closes[l].visit => k = l

\* A live visit that has corrected a page line is at a later line of its
\* file, inside a file it inserts: its temporary file holds a part of the
\* output and the file itself is as it was.
C11_Witness ==
    \E i \in Runs :
        /\ Current(i) /\ ~runs[i].dry
        /\ Len(stack) = 2
        /\ stack[1].changes
        /\ Len(fs[Temp(stack[1].file)]) \in 1..(Len(stack[1].lines) - 1)
        /\ fs[Temp(stack[1].file)] # SubSeq(stack[1].lines, 1, Len(fs[Temp(stack[1].file)]))

----------------------------------------------------------------------------
(* C12: a temporary file exists only while a file that ends up changed is  *)
(* being rewritten: none is ever created for a file whose visit corrects   *)
(* nothing, and none exists after the run completes.                       *)

\* the temporary files of f
Temps(f) == {p \in DOMAIN f : IsTemp(p)}

\* the temporary files of the calls on the stack
StackTemps == {Temp(stack[k].file) : k \in Idx(stack)}

\* C12 as stated: a visit that had a temporary file at its end changed its
\* file.
C12_TempOnlyForChangedFiles ==
    \A i \in Latest : \A e \in Events(runs[i].closes) :
        e.wrote => e.renamed /\ FixedLines(runs[i], e.visit) # {}

\* C12 as amended: every live visit has its temporary file from its start,
\* whether or not it corrects anything; the end of the visit renames it or
\* deletes it, so that the only temporary files are those of the calls on
\* the stack and those that were there before the run.  A run that was
\* aborted inside a file leaves the temporary files of its open calls; a dry
\* run makes none.
C12_TempForEveryLiveVisit ==
    \A i \in Latest :
        /\ ~runs[i].dry => StackTemps \subseteq Temps(fs)
        /\ runs[i].state # "aborted" =>
              Temps(fs) \subseteq Temps(runs[i].fs0) \cup StackTemps
        /\ runs[i].dry => Temps(fs) = Temps(runs[i].fs0)
        /\ \A e \in Events(runs[i].closes) :
              /\ e.wrote <=> e.reader = "renumber"
              /\ ~e.temp
        /\ (~runs[i].dry /\ runs[i].state = "aborted"
               /\ runs[i].opens > Len(runs[i].closes)) => Temps(fs) # {}

\* A live visit of a file with a page line corrected nothing: it had a
\* temporary file with all its lines, which is gone, and the run is complete.
C12_Witness ==
    \E i \in Runs : \E e \in Events(runs[i].closes) :
        /\ Current(i) /\ ~runs[i].dry /\ runs[i].state = "done"
        /\ FixedLines(runs[i], e.visit) = {}
        /\ \E k \in Idx(e.input) : PAGE_RE_match(e.input[k])
        /\ e.wrote /\ e.output = e.input
        /\ ~e.renamed /\ ~e.temp
        /\ Temps(fs) = {}

----------------------------------------------------------------------------
(* C13: when an insertion line names a file that cannot be opened, in      *)
(* either mode the run of the entry file ends there: no later line is      *)
(* read, no later notice printed, no counter step made; the files whose    *)
(* visit was over keep their rewrite, and the files of the calls that were *)
(* open (the ancestors of the missing file) are not replaced.              *)

\* the step in which a call made from an insertion line fails
AbortStep == status = "visit" /\ status' = "error"

\* the reader is at an insertion line that names a file that cannot be opened
AtMissing == AtLine /\ INSERT_RE_match(Line) /\ ~Exists(fs, INSERT_RE_group1(Line))

C13_AbortAtMissingFile ==
    [][/\ (AtMissing /\ Len(stack) < MaxDepth) => AbortStep
       /\ AbortStep =>
            /\ AtMissing
            /\ stack' = <<>>
            /\ fs' = fs /\ stdout' = stdout /\ nextPage' = nextPage
            /\ ThisRun'.state = "aborted"
            /\ ThisRun'.pages = ThisRun.pages
            /\ ThisRun'.closes = ThisRun.closes
            /\ \A k \in Idx(stack) :
                  /\ fs'[stack[k].file] = stack[k].lines
                  /\ \A e \in Events(ThisRun'.closes) : e.visit # stack[k].visit
            /\ \A p \in Sources(fs') :
                  Replacing(ThisRun', p) # {} =>
                      fs'[p] = ThisRun'.closes[Last(Replacing(ThisRun', p))].output
       /\ status = "error" =>
            /\ fs' = fs /\ stdout' = stdout /\ runs' = runs
            /\ stack' = <<>> /\ status' = "main"
      ]_vars

\* A live run was aborted inside its entry file after it had replaced a file
\* and printed a notice: the file keeps its rewrite and the entry file is as
\* it was, its temporary file left behind.
C13_Witness ==
    \E i \in Runs :
        /\ Current(i) /\ ~runs[i].dry
        /\ status = "error" /\ runs[i].state = "aborted"
        /\ \E e \in Events(runs[i].closes) : e.renamed /\ fs[e.file] = e.output
        /\ Notices(i) # <<>>
        /\ fs[runs[i].file] = runs[i].fs0[runs[i].file]
        /\ Exists(fs, Temp(runs[i].file))

\* A dry run was aborted inside a file that its entry file inserts, after a
\* notice.
C13_WitnessDry ==
    \E i \in Runs :
        /\ Current(i) /\ runs[i].dry
        /\ status = "error" /\ runs[i].state = "aborted"
        /\ runs[i].opens = 2 /\ runs[i].closes = <<>>
        /\ Notices(i) # <<>>

----------------------------------------------------------------------------
(* C14: a run prints one notice for each page line it finds wrong and none *)
(* else: the notices of a run are, in the order of the traversal, the      *)
(* (declared, expected) pairs of the mismatching page lines visited, so    *)
(* their number is the number of such lines, and the notices of an         *)
(* inserted file stand between those of the lines of its parent before and *)
(* after the insertion line.                                               *)

C14_OneNoticePerCorrection ==
    \A i \in Latest :
        LET fixed == SelectSeq(runs[i].pages, Corrected)
        IN  /\ Len(Notices(i)) = Len(fixed)
            /\ \A k \in Idx(fixed) :
                  Notices(i)[k] = Notice(fixed[k].declared, fixed[k].expected)
            /\ \A k, l \in Idx(runs[i].pages) :
                  LET p == runs[i].pages[k]
                      q == runs[i].pages[l]
                  IN  k < l => /\ p.expected < q.expected
                               /\ p.visit = q.visit => p.idx < q.idx
                               /\ p.depth < q.depth => p.visit < q.visit

\* A complete run has printed three notices: for a line of the entry file,
\* for a line of the file it inserts, and for a later line of the entry file.
C14_Witness ==
    \E i \in Runs :
        /\ Current(i) /\ runs[i].state = "done"
        /\ Len(Notices(i)) = 3
        /\ Len(runs[i].pages) = 3
        /\ runs[i].pages[1].depth = 1
        /\ runs[i].pages[2].depth = 2
        /\ runs[i].pages[3].depth = 1

----------------------------------------------------------------------------
(* C15: a visit is committed only when the last line of its file has been  *)
(* processed, hence after the commit of every visit that began during it:  *)
(* for an insertion line of F that names G, that visit of G is committed   *)
(* before that visit of F, and while G is traversed the content of F on    *)
(* disk is still the one F had when its visit began.                       *)

C15_CommitAfterInsertedFiles ==
    [][status = "visit" =>
        /\ Len(ThisRun'.closes) > Len(ThisRun.closes) =>
              LET e == ThisRun'.closes[Len(ThisRun'.closes)]
              IN  /\ Len(ThisRun'.closes) = Len(ThisRun.closes) + 1
                  /\ e.visit = Top.visit /\ e.file = Top.file
                  /\ Top.pos = Len(Top.lines) + 1
                  /\ \A v \in (Top.visit + 1)..ThisRun.opens :
                        \E c \in Events(ThisRun.closes) : c.visit = v
                  /\ \A k \in 1..(Len(stack) - 1) :
                        /\ stack[k].visit < Top.visit
                        /\ \A c \in Events(ThisRun'.closes) : c.visit # stack[k].visit
                        /\ fs'[stack[k].file] = stack[k].lines
        /\ \A k \in 1..(Len(stack') - 1) :
              /\ INSERT_RE_match(stack'[k].lines[stack'[k].pos])
              /\ INSERT_RE_group1(stack'[k].lines[stack'[k].pos]) = stack'[k + 1].file
              /\ fs'[stack'[k].file] = stack'[k].lines
      ]_vars

\* In a complete live run a file and the file it inserts were both replaced,
\* the inserted file first, and the entry file read another line after the
\* insertion line.
C15_Witness ==
    \E i \in Runs :
        /\ Current(i) /\ ~runs[i].dry /\ runs[i].state = "done"
        /\ \E k, l \in Idx(runs[i].closes) :
              /\ k < l
              /\ runs[i].closes[k].depth = 2 /\ runs[i].closes[l].depth = 1
              /\ runs[i].closes[k].visit > runs[i].closes[l].visit
              /\ runs[i].closes[k].renamed /\ runs[i].closes[l].renamed
              /\ ~INSERT_RE_match(runs[i].closes[l].input[Len(runs[i].closes[l].input)])

----------------------------------------------------------------------------
(* C16: nothing is remembered between visits.  A file that k insertion     *)
(* lines reached by the traversal name is traversed k times, each time in  *)
(* full: every visit of it advances the counter by the page lines below it *)
(* and compares them against the counter as it stands at that visit.       *)

\* The files of the tree of file in f, in the order a depth-first traversal
\* that follows every insertion line enters them.
RECURSIVE Traversal(_, _, _)
Traversal(f, file, depth) ==
    LET RECURSIVE From(_)
        From(k) ==
            IF k > Len(f[file]) THEN <<>>
            ELSE LET line == f[file][k]
                 IN  (IF INSERT_RE_match(line)
                      THEN Traversal(f, INSERT_RE_group1(line), depth + 1)
                      ELSE <<>>) \o From(k + 1)
    IN  IF depth > MaxDepth \/ ~Exists(f, file) THEN <<>> ELSE <<file>> \o From(1)

\* The page lines of that tree as <<file, index>>, in the order of the same
\* traversal.
RECURSIVE Markers(_, _, _)
Markers(f, file, depth) ==
    LET RECURSIVE From(_)
        From(k) ==
            IF k > Len(f[file]) THEN <<>>
            ELSE LET line == f[file][k]
                 IN  (IF INSERT_RE_match(line)
                      THEN Markers(f, INSERT_RE_group1(line), depth + 1)
                      ELSE IF PAGE_RE_match(line) THEN <<(<<file, k>>)>>
                      ELSE <<>>) \o From(k + 1)
    IN  IF depth > MaxDepth \/ ~Exists(f, file) THEN <<>> ELSE From(1)

C16_RepeatedReferencesRevisited ==
    \A i \in Latest :
        runs[i].state = "done" =>
            LET r == runs[i]
                pre == Traversal(r.fs0, r.file, 1)
                marks == Markers(r.fs0, r.file, 1)
            IN  /\ r.opens = Len(pre)
                /\ Len(r.closes) = Len(pre)
                /\ \A e \in Events(r.closes) :
                      e.visit \in Idx(pre) /\ e.file = pre[e.visit]
                /\ Len(r.pages) = Len(marks)
                /\ \A k \in Idx(r.pages) :
                      /\ <<r.pages[k].file, r.pages[k].idx>> = marks[k]
                      /\ r.pages[k].expected = k

\* A complete run went twice through a file with a page line, and compared
\* the line against 1 the first time and against 2 the second.
C16_Witness ==
    \E i \in Runs :
        /\ Current(i) /\ runs[i].state = "done"
        /\ Len(runs[i].pages) = 2
        /\ runs[i].pages[1].file = runs[i].pages[2].file
        /\ runs[i].pages[1].idx = runs[i].pages[2].idx
        /\ runs[i].pages[1].visit # runs[i].pages[2].visit
        /\ Len(runs[i].closes) = 3

----------------------------------------------------------------------------
(* C17: nothing detects a cycle.  When the insertion lines that can be     *)
(* reached from the entry file form a cycle (a file that inserts itself    *)
(* included), the run never completes, no file on a cycle is ever          *)
(* committed, and the calls nest ever deeper: inside a file on a cycle     *)
(* the reader always has a next step, except at the depth bound of the     *)
(* model, whatever that bound is, where the next step is one more call.    *)

\* the files that exist in f and are named by the insertion lines of p
Edges(f, p) ==
    {INSERT_RE_group1(f[p][k]) : k \in {j \in Idx(f[p]) : INSERT_RE_match(f[p][j])}}
        \cap DOMAIN f

\* S and the files reached from it by at most n insertion lines in a row
RECURSIVE Closure(_, _, _)
Closure(f, S, n) ==
    LET more == S \cup UNION {Edges(f, p) : p \in S}
    IN  IF n = 0 \/ more = S THEN S ELSE Closure(f, more, n - 1)

\* the files below p in the tree of f
Below(f, p) == Closure(f, Edges(f, p), Cardinality(DOMAIN f))

\* TRUE iff p is on a cycle of insertion lines
OnCycle(f, p) == p \in Below(f, p)

\* TRUE iff a cycle can be reached from the file p, which exists in f
Cyclic(f, p) == \E q \in {p} \cup Below(f, p) : OnCycle(f, q)

\* The reader has a step to take.  (A commit is the last one of its run in
\* the state that follows it: what holds of the last commit in every state
\* holds of every commit.)
Running == ENABLED (ParseInsert \/ ParseOther \/ Return)

\* what holds of a run in a state
NeverPastACycle ==
    \A i \in Latest :
        LET r == runs[i]
        IN  /\ r.closes # <<>> => ~OnCycle(r.fs0, r.closes[Len(r.closes)].file)
            /\ r.state = "done" => ~Cyclic(r.fs0, r.file)
            /\ (status = "visit" /\ OnCycle(r.fs0, Top.file)) =>
                  \/ /\ Len(stack) = MaxDepth
                     /\ AtLine /\ INSERT_RE_match(Line)
                     /\ Exists(fs, INSERT_RE_group1(Line))
                  \/ Running
            /\ \A k, l \in Idx(stack) :
                  (k < l /\ stack[k].file = stack[l].file) =>
                      /\ OnCycle(r.fs0, stack[k].file)
                      /\ r.state = "running"

\* the reader is at an insertion line that names the file of an active call
ClosesCycle ==
    /\ AtLine /\ INSERT_RE_match(Line)
    /\ \E k \in Idx(stack) : stack[k].file = INSERT_RE_group1(Line)

\* The step taken there is one more call on that file: the calls below it
\* stay as they are, nothing is committed and no file but the temporary file
\* of the new call changes.
C17_NoCycleDetection ==
    /\ []NeverPastACycle
    /\ [][ClosesCycle =>
            /\ stack' = Append(stack, stack'[Len(stack')])
            /\ stack'[Len(stack')].file = INSERT_RE_group1(Line)
            /\ stack'[Len(stack')].pos = 1
            /\ ThisRun'.closes = ThisRun.closes
            /\ ThisRun'.opens = ThisRun.opens + 1
            /\ \A p \in Sources(fs) : fs'[p] = fs[p]
         ]_vars

\* A live run that has committed a file is inside a file that inserts
\* itself, as deep as the model goes: the file is open twice and the next
\* call would open it again.
C17_Witness ==
    \E i \in Runs :
        /\ Current(i) /\ ~runs[i].dry
        /\ status = "visit" /\ ~Running
        /\ Len(stack) = MaxDepth
        /\ stack[MaxDepth - 1].file = stack[MaxDepth].file
        /\ INSERT_RE_group1(Line) = Top.file
        /\ runs[i].closes # <<>>
        /\ runs[i].opens = MaxDepth + 1

----------------------------------------------------------------------------
(* C18: every line is of exactly one kind (insertion line, page line, any  *)
(* other line) and blanks or tabs at the start of a line are allowed and   *)
(* passed over: a line that reads, after them, comment marker, optional    *)
(* white space, Page, white space, a number, is handled as a page line,    *)
(* compared against the counter and advancing it.                          *)

\* '$' and then a name of one or more characters that are no blank or tab
InsertionShape(line) ==
    \E m \in 3..(Len(line) + 1) :
        /\ line[1] = "$"
        /\ \A k \in 2..(m - 1) : line[k] \notin WS
        /\ m <= Len(line) => line[m] \in WS

\* the name of an insertion line
InsertionName(line) ==
    SubSeq(line, 2, (CHOOSE m \in 3..(Len(line) + 1) :
                        /\ \A k \in 2..(m - 1) : line[k] \notin WS
                        /\ m <= Len(line) => line[m] \in WS) - 1)

\* '##', blanks or tabs or none, 'Page', one blank or tab or more, a digit
PageShape(line) ==
    \E a, b \in 3..Len(line) :
        /\ line[1] = "#" /\ line[2] = "#"
        /\ \A k \in 3..(a - 1) : line[k] \in WS
        /\ a + Len(PageKw) - 1 <= Len(line)
        /\ SubSeq(line, a, a + Len(PageKw) - 1) = PageKw
        /\ b > a + Len(PageKw)
        /\ \A k \in (a + Len(PageKw))..(b - 1) : line[k] \in WS
        /\ line[b] \in Digits

\* the line without the blanks and tabs at its start
Stripped(line) == SubSeq(line, Skip(line, 1, WS), Len(line))

\* the kind of a line
Kind(line) ==
    IF InsertionShape(line) THEN "insertion"
    ELSE IF PageShape(line) THEN "page"
    ELSE "other"

\* C18 as stated: a line that has the shape of a page line after the blanks
\* and tabs at its start advances the counter.
C18_LeadingWhitespaceIgnored ==
    [][(AtLine /\ PageShape(Stripped(Line))) => nextPage' = nextPage + 1]_vars

\* C18 as amended: the shapes are looked for at the first character of the
\* line.  An insertion line makes the call on its name and moves neither the
\* counter nor the output; a page line advances the counter by one and is
\* recorded against it; any other line, a line with a blank or a tab before
\* '$' or '##' included, leaves the counter alone, prints nothing and is
\* written as it is.
C18_ShapesAtFirstCharacter ==
    [][AtLine =>
        /\ Kind(Line) = "insertion" =>
              /\ nextPage' = nextPage /\ stdout' = stdout
              /\ \/ status' = "error" /\ ~Exists(fs, InsertionName(Line))
                 \/ /\ Len(stack') = Len(stack) + 1
                    /\ stack'[Len(stack')].file = InsertionName(Line)
                    /\ stack'[Len(stack)] = Top
        /\ Kind(Line) = "page" =>
              /\ nextPage' = nextPage + 1
              /\ Len(stack') = Len(stack)
              /\ stack'[Len(stack)].pos = Top.pos + 1
              /\ Len(ThisRun'.pages) = Len(ThisRun.pages) + 1
              /\ ThisRun'.pages[Len(ThisRun'.pages)].line = Line
        /\ Kind(Line) = "other" =>
              /\ nextPage' = nextPage /\ stdout' = stdout
              /\ ThisRun'.pages = ThisRun.pages
              /\ Len(stack') = Len(stack)
              /\ stack'[Len(stack)].pos = Top.pos + 1
              /\ Top.reader = "renumber" =>
                    fs'[Temp(Top.file)] = Append(fs[Temp(Top.file)], Line)
        /\ Line[1] \in WS => Kind(Line) = "other"
      ]_vars

\* A live visit is over that read a line with a blank before '## Page 1' and
\* a line with a tab between '##' and 'Page': the first was written as it
\* was and not counted, the second was compared against 1.
C18_Witness ==
    \E i \in Runs : \E e \in Events(runs[i].closes) :
        /\ e.reader = "renumber" /\ Len(e.input) = 2
        /\ e.input[1][1] \in WS /\ PageShape(Stripped(e.input[1]))
        /\ e.output[1] = e.input[1]
        /\ Kind(e.input[2]) = "page" /\ e.input[2][3] = "\t"
        /\ Len(runs[i].pages) = 1
        /\ runs[i].pages[1].idx = 2 /\ runs[i].pages[1].expected = 1

----------------------------------------------------------------------------
(* C19: once a live run is complete, the numbers of the page lines of the  *)
(* tree, read from disk in traversal order, are 1, 2, ..., N, where N is   *)
(* the number of page lines the run went through; also when a file is      *)
(* named by more than one insertion line.                                  *)

C19_NumbersInOrderOnDisk ==
    \A i \in Latest :
        (Current(i) /\ ~runs[i].dry /\ runs[i].state = "done") =>
            /\ InOrder(Declared(fs, runs[i].file, 1))
            /\ Len(Declared(fs, runs[i].file, 1)) = Len(runs[i].pages)

----------------------------------------------------------------------------
(* C20: when the insertion lines that can be reached from an entry file    *)
(* form no cycle (a file may be named more than once) and every file they  *)
(* name can be opened, the run of that entry file comes to its end, in     *)
(* either mode: it is never aborted, and eventually every visit it began   *)
(* is committed and no call is active.                                     *)

\* the names on the insertion lines of the file p of f
Names(f, p) ==
    {INSERT_RE_group1(f[p][k]) : k \in {j \in Idx(f[p]) : INSERT_RE_match(f[p][j])}}

\* TRUE iff the tree of the file p of f has no cycle and no missing file
WellFounded(f, p) ==
    /\ Exists(f, p)
    /\ ~Cyclic(f, p)
    /\ \A q \in {p} \cup Below(f, p) : Names(f, q) \subseteq DOMAIN f

\* a run over such a tree is under way
InWellFoundedRun == status = "visit" /\ WellFounded(ThisRun.fs0, ThisRun.file)

\* the run is complete
Complete ==
    /\ runs # <<>>
    /\ stack = <<>>
    /\ ThisRun.state = "done"
    /\ Len(ThisRun.closes) = ThisRun.opens
    /\ \A v \in 1..ThisRun.opens : \E e \in Events(ThisRun.closes) : e.visit = v

C20_AcyclicRunTerminates ==
    /\ [](InWellFoundedRun => ThisRun.state = "running")
    /\ InWellFoundedRun ~> Complete

\* A live run over three files, each inserted by the one before, is
\* complete: three visits begun, three committed, no call active.
C20_Witness ==
    \E i \in Runs :
        /\ Current(i) /\ ~runs[i].dry
        /\ WellFounded(runs[i].fs0, runs[i].file)
        /\ Complete
        /\ runs[i].opens = 3
        /\ \E e \in Events(runs[i].closes) : e.depth = 3

\* The same in a dry run.
C20_WitnessDry ==
    \E i \in Runs :
        /\ Current(i) /\ runs[i].dry
        /\ WellFounded(runs[i].fs0, runs[i].file)
        /\ Complete
        /\ runs[i].opens = 3
        /\ \E e \in Events(runs[i].closes) : e.depth = 3

====
